---- MODULE Spec2Model ----
(***************************************************************************)
(* Model of split_bam.py: demultiplexing of an alignment archive into one  *)
(* output archive per cell barcode (tag CB): the linear pass                *)
(* SplitBam.split_bam as driven by the __main__ block (Spec) and the       *)
(* region-bounded pass SplitBam.main (SpecMain).                           *)
(***************************************************************************)
EXTENDS Integers, Sequences, FiniteSets, TLC

\* ---------------------------------------------------------------- bounds
MaxRecs == 3          \* longest input archive, in records
MaxRows == 2          \* longest barcode file, in rows
MaxChroms == 2        \* longest --chromosomes list

\* ------------------------------------------------------------ universes
NaN == "NaN"          \* the float nan pandas yields for an empty first cell;
                      \* it equals no string-typed CB value
UNDETERMINED == "undetermined"
CBValues == {"AAAC-1", "TTTG-1", UNDETERMINED}
Cells == CBValues \cup {NaN}

\* read.tags is a list of (key, value) pairs
TagLists == {<< >>} \cup {<< <<"CB", v>> >> : v \in CBValues} \cup {<< <<"UB", "x">> >>}

RefTables == { << <<"1", 10>>, <<"chrM", 16>> >>,
               << <<"chrM", 16>>, <<"1", 10>> >> }

\* the inputs of the region-bounded pass
UNMAPPED == "*"       \* the reference of a record without one
MainCells == {"AAAC-1", "TTTG-1"}
MainTagLists == {<< >>, << <<"CB", "AAAC-1">> >>, << <<"CB", "TTTG-1">> >>}
MainRefTable == << <<"1", 10>>, <<"chrM", 16>> >>
ChromNames == {"1", "chrM", "X"}          \* "X" is in no reference table
\* default of --chromosomes, the autosomes 1..22 abridged to "1"
DefaultChromosomes == <<"1", "chrM">>

SeqsUpTo(S, lo, hi) == UNION {[1..n -> S] : n \in lo..hi}

VARIABLES
    barcode_csv,      \* first column of the barcode file, row by row
    input,            \* the records of the input archive, in storage order
    bam,              \* self.bam: [refs, open]
    barcodes,         \* self.barcodes
    pc,               \* "fetch" | "route" | "closing" | "done" | "aborted";
                      \* in main: "lookup" | "mfetch" | "mroute" | "mclosing"
    err,              \* kind of the exception that propagated, "" if none
    pos,              \* number of records the iterator has yielded
    read_count,
    tag_to_file_map,  \* routing key -> handle (index into files)
    files,            \* output archives in order of creation
    closeIdx,         \* position of the close loop in tag_to_file_map.values()
    stdout,           \* the read counts printed
    reference,        \* the reference name of each input record, or UNMAPPED
    chromosomes,      \* self.chromosomes
    chromIdx          \* position of main's loop in self.chromosomes

vars == <<barcode_csv, input, bam, barcodes, pc, err, pos, read_count,
          tag_to_file_map, files, closeIdx, stdout, reference, chromosomes,
          chromIdx>>

\* ------------------------------------------------------------- helpers
\* set(df.iloc[:, 0].values.tolist())
get_barcodes(barcode_file) == {barcode_file[i] : i \in DOMAIN barcode_file}

\* dict(read.tags): the last pair of a key wins
dict(pairs) ==
    [k \in {pairs[i][1] : i \in DOMAIN pairs} |->
        pairs[CHOOSE i \in DOMAIN pairs :
                 /\ pairs[i][1] = k
                 /\ \A j \in DOMAIN pairs : pairs[j][1] = k => j <= i][2]]

\* the record the iterator yields at position i; a record has no identity
\* other than its offset in the archive
Read(i) == [offset |-> i, tags |-> input[i]]

EmptyMap == [k \in {} |-> 0]

\* pysam.AlignmentFile(tag_file_name, "wb", template=self.bam)
AlignmentFile_wb_noheader(tag_value, template) ==
    [key |-> tag_value, header |-> << >>, recs |-> << >>, state |-> "open",
     closes |-> 0]

AlignmentFile_wb(tag_value, template) ==
    [key |-> tag_value, header |-> template.refs, recs |-> << >>, state |-> "open",
     closes |-> 0]      \* closes: the close() calls made on the file

get_file_for_tag_always_new(map, fs, tag_value) ==
    [map    |-> (tag_value :> (Len(fs) + 1)) @@ map,
     fs     |-> Append(fs, AlignmentFile_wb(tag_value, bam)),
     handle |-> Len(fs) + 1]

get_file_for_tag(map, fs, tag_value) ==
    IF tag_value \notin DOMAIN map
    THEN [map    |-> (tag_value :> (Len(fs) + 1)) @@ map,
          fs     |-> Append(fs, AlignmentFile_wb(tag_value, bam)),
          handle |-> Len(fs) + 1]
    ELSE [map |-> map, fs |-> fs, handle |-> map[tag_value]]

write_prepend(file, read) == [file EXCEPT !.recs = <<read>> \o @]

\* outfile.write(read)
write(file, read) == [file EXCEPT !.recs = Append(@, read)]

destination_no_filter(read) ==
    LET tags == dict(read.tags) IN
    IF "CB" \in DOMAIN tags
    THEN [write |-> TRUE, key |-> tags["CB"]]
    ELSE [write |-> TRUE, key |-> UNDETERMINED]

destination_inverted(read) ==
    LET tags == dict(read.tags) IN
    IF "CB" \in DOMAIN tags
    THEN IF tags["CB"] \notin barcodes
         THEN [write |-> TRUE, key |-> tags["CB"]]
         ELSE [write |-> FALSE, key |-> ""]
    ELSE [write |-> TRUE, key |-> UNDETERMINED]

destination_drop_untagged(read) ==
    LET tags == dict(read.tags) IN
    IF "CB" \in DOMAIN tags /\ tags["CB"] \in barcodes
    THEN [write |-> TRUE, key |-> tags["CB"]]
    ELSE [write |-> FALSE, key |-> ""]

\* the branches of the loop body of split_bam
destination(read) ==
    LET tags == dict(read.tags) IN
    IF "CB" \in DOMAIN tags
    THEN IF tags["CB"] \in barcodes
         THEN [write |-> TRUE, key |-> tags["CB"]]
         ELSE [write |-> FALSE, key |-> ""]
    ELSE [write |-> TRUE, key |-> UNDETERMINED]

count_assign(n) == 1

\* read_count += 1
count(n) == n + 1

exit_remove_output(exc, b, fs) ==
    [bam |-> [b EXCEPT !.open = FALSE], fs |-> IF exc THEN << >> ELSE fs]

\* SplitBam.__exit__ at the end of the with block; exc: an exception is
\* propagating. It closes the input and touches no output
exit(exc, b, fs) == [bam |-> [b EXCEPT !.open = FALSE], fs |-> fs]

\* SplitBam.__get_chr_names
get_chr_names(b) == [i \in DOMAIN b.refs |-> b.refs[i][1]]

\* SplitBam.__get_chr_lengths: {name: length for name, length in zip(...)}
get_chr_lengths(b) ==
    [name \in {b.refs[i][1] : i \in DOMAIN b.refs} |->
        b.refs[CHOOSE i \in DOMAIN b.refs :
                  /\ b.refs[i][1] = name
                  /\ \A j \in DOMAIN b.refs : b.refs[j][1] = name => j <= i][2]]

\* if chromosomes: self.chromosomes = chromosomes, else the names of the input
init_chromosomes(arg, b) == IF arg # << >> THEN arg ELSE get_chr_names(b)

\* ---------------------------------------------------------------- Init
\* pd.read_csv raises on a file without rows, so a pass only ever starts
\* with at least one row
Init ==
    /\ barcode_csv \in SeqsUpTo(Cells, 1, MaxRows)
    /\ input \in SeqsUpTo(TagLists, 0, MaxRecs)
    /\ \E t \in RefTables : bam = [refs |-> t, open |-> TRUE]
    /\ barcodes = get_barcodes(barcode_csv)
    /\ pc = "fetch"
    /\ err = ""
    /\ pos = 0
    /\ read_count = 0
    /\ tag_to_file_map = EmptyMap
    /\ files = << >>
    /\ closeIdx = 0
    /\ stdout = << >>
    /\ reference = [i \in DOMAIN input |-> bam.refs[1][1]]
    /\ chromosomes = init_chromosomes(DefaultChromosomes, bam)
    /\ chromIdx = 0

\* ------------------------------------------------------------- actions
\* an exception leaves split_bam and the with block: __exit__ closes the
\* input and the exception propagates
Raise(kind, fs) ==
    /\ pc' = "aborted"
    /\ err' = kind
    /\ bam' = exit(TRUE, bam, fs).bam
    /\ files' = exit(TRUE, bam, fs).fs

\* for read in self.bam.fetch(): read_count += 1
Fetch ==
    /\ pc = "fetch" /\ pos < Len(input)
    /\ pos' = pos + 1
    /\ read_count' = count(read_count)
    /\ pc' = "route"
    /\ UNCHANGED <<reference, chromosomes, chromIdx, barcode_csv, input, bam, barcodes, err, tag_to_file_map,
                   files, closeIdx, stdout>>

\* the iterator raises while decoding record pos + 1
DecodeError ==
    /\ pc = "fetch" /\ pos < Len(input)
    /\ Raise("decode", files)
    /\ UNCHANGED <<reference, chromosomes, chromIdx, barcode_csv, input, barcodes, pos, read_count,
                   tag_to_file_map, closeIdx, stdout>>

\* the iterator is exhausted: print("closing files: ")
EndOfStream ==
    /\ pc = "fetch" /\ pos = Len(input)
    /\ pc' = "closing"
    /\ closeIdx' = 1
    /\ UNCHANGED <<reference, chromosomes, chromIdx, barcode_csv, input, bam, barcodes, err, pos, read_count,
                   tag_to_file_map, files, stdout>>

\* a branch that resolves the output file and writes the record
RouteTo(key) ==
    LET r == get_file_for_tag(tag_to_file_map, files, key) IN
    /\ tag_to_file_map' = r.map
    /\ files' = [r.fs EXCEPT ![r.handle] = write(@, Read(pos))]
    /\ pc' = "fetch"
    /\ UNCHANGED <<reference, chromosomes, chromIdx, barcode_csv, input, bam, barcodes, err, pos, read_count,
                   closeIdx, stdout>>

RouteBarcode ==
    /\ pc = "route"
    /\ destination(Read(pos)).write
    /\ "CB" \in DOMAIN dict(Read(pos).tags)
    /\ RouteTo(destination(Read(pos)).key)

RouteUndetermined ==
    /\ pc = "route"
    /\ destination(Read(pos)).write
    /\ "CB" \notin DOMAIN dict(Read(pos).tags)
    /\ RouteTo(destination(Read(pos)).key)

\* pass  # discard read
Discard ==
    /\ pc = "route"
    /\ ~destination(Read(pos)).write
    /\ pc' = "fetch"
    /\ UNCHANGED <<reference, chromosomes, chromIdx, barcode_csv, input, bam, barcodes, err, pos, read_count,
                   tag_to_file_map, files, closeIdx, stdout>>

\* pysam.AlignmentFile(..., "wb") raises inside __get_file_for_tag
OpenError ==
    /\ pc = "route"
    /\ destination(Read(pos)).write
    /\ destination(Read(pos)).key \notin DOMAIN tag_to_file_map
    /\ Raise("open", files)
    /\ UNCHANGED <<reference, chromosomes, chromIdx, barcode_csv, input, barcodes, pos, read_count,
                   tag_to_file_map, closeIdx, stdout>>

\* outfile.write(read) raises: the file is resolved, the record not written
WriteError ==
    /\ pc = "route"
    /\ destination(Read(pos)).write
    /\ LET r == get_file_for_tag(tag_to_file_map, files, destination(Read(pos)).key) IN
         /\ tag_to_file_map' = r.map
         /\ Raise("write", r.fs)
    /\ UNCHANGED <<reference, chromosomes, chromIdx, barcode_csv, input, barcodes, pos, read_count, closeIdx, stdout>>

\* file.close() returns; tag_to_file_map.values() is in insertion order
CloseFile ==
    /\ pc = "closing" /\ closeIdx <= Len(files)
    /\ files' = [files EXCEPT ![closeIdx].state = "closed",
                              ![closeIdx].closes = @ + 1]
    /\ closeIdx' = closeIdx + 1
    /\ UNCHANGED <<reference, chromosomes, chromIdx, barcode_csv, input, bam, barcodes, pc, err, pos, read_count,
                   tag_to_file_map, stdout>>

\* file.close() raises; the handler evaluates
\* warnings('error closing file ' + file), which raises TypeError (str + file,
\* and warnings is a module): the exception leaves the loop
CloseError ==
    /\ pc = "closing" /\ closeIdx <= Len(files)
    /\ Raise("close", [files EXCEPT ![closeIdx].state = "error",
                                    ![closeIdx].closes = @ + 1])
    /\ UNCHANGED <<reference, chromosomes, chromIdx, barcode_csv, input, barcodes, pos, read_count,
                   tag_to_file_map, closeIdx, stdout>>

\* print("num reads = "+str(read_count)), then __exit__
Report ==
    /\ pc = "closing" /\ closeIdx > Len(files)
    /\ stdout' = Append(stdout, read_count)
    /\ pc' = "done"
    /\ bam' = exit(FALSE, bam, files).bam
    /\ files' = exit(FALSE, bam, files).fs
    /\ UNCHANGED <<reference, chromosomes, chromIdx, barcode_csv, input, barcodes, err, pos, read_count,
                   tag_to_file_map, closeIdx>>

Next ==
    \/ Fetch
    \/ DecodeError
    \/ EndOfStream
    \/ RouteBarcode
    \/ RouteUndetermined
    \/ Discard
    \/ OpenError
    \/ WriteError
    \/ CloseFile
    \/ CloseError
    \/ Report

Spec == Init /\ [][Next]_vars

\* ===================================================================
\* The region-bounded pass SplitBam.main
\* ===================================================================
RECURSIVE fetch_from(_, _)
fetch_from(chrom, i) ==
    IF i > Len(input) THEN << >>
    ELSE IF reference[i] = chrom
         THEN <<i>> \o fetch_from(chrom, i + 1)
         ELSE fetch_from(chrom, i + 1)

RECURSIVE fetch_with_unmapped_from(_, _)
fetch_with_unmapped_from(chrom, i) ==
    IF i > Len(input) THEN << >>
    ELSE IF reference[i] \in {chrom, UNMAPPED}
         THEN <<i>> \o fetch_with_unmapped_from(chrom, i + 1)
         ELSE fetch_with_unmapped_from(chrom, i + 1)

fetch_with_unmapped(chrom, start, end) == fetch_with_unmapped_from(chrom, 1)

fetch_until_eof(chrom, start, end) == [i \in 1..Len(input) |-> i]

\* SplitBam.__fetch: self.bam.fetch(chrom, start, end), as the offsets of
\* the records it yields, in storage order. Every record on chrom overlaps
\* [0, reflen)
fetch(chrom, start, end) == fetch_from(chrom, 1)

chr_length_default(lengths, chrom) ==
    IF chrom \in DOMAIN lengths
    THEN [raised |-> FALSE, reflen |-> lengths[chrom]]
    ELSE [raised |-> FALSE, reflen |-> 0]

\* reflen = self.chr_lengths[chrom]: KeyError for a name the input lacks
chr_length(lengths, chrom) ==
    IF chrom \in DOMAIN lengths
    THEN [raised |-> FALSE, reflen |-> lengths[chrom]]
    ELSE [raised |-> TRUE, reflen |-> 0]

\* pileupobj.has_tag(k)
has_tag(read, k) == \E j \in DOMAIN read.tags : read.tags[j][1] = k

\* pileupobj.get_tag(k)
get_tag(read, k) ==
    read.tags[CHOOSE j \in DOMAIN read.tags :
                 /\ read.tags[j][1] = k
                 /\ \A l \in DOMAIN read.tags : read.tags[l][1] = k => j <= l][2]

destination_main_no_filter(read) ==
    IF has_tag(read, "CB")
    THEN [write |-> TRUE, key |-> get_tag(read, "CB")]
    ELSE [write |-> TRUE, key |-> UNDETERMINED]

\* the branches of the loop body of main
destination_main(read) ==
    IF has_tag(read, "CB")
    THEN IF get_tag(read, "CB") \in barcodes
         THEN [write |-> TRUE, key |-> get_tag(read, "CB")]
         ELSE [write |-> FALSE, key |-> ""]
    ELSE [write |-> TRUE, key |-> UNDETERMINED]

\* the iterator of the entry in hand and the record it yielded last
Region ==
    fetch(chromosomes[chromIdx], 0,
          chr_length(get_chr_lengths(bam), chromosomes[chromIdx]).reflen)
Pileupobj == Read(Region[pos])

\* a coordinate-sorted archive: the references follow the order of the
\* reference table, records without a reference come last
Rank(table, name) ==
    IF \E i \in DOMAIN table : table[i][1] = name
    THEN CHOOSE i \in DOMAIN table : table[i][1] = name
    ELSE Len(table) + 1

InitMain ==
    /\ barcode_csv \in [1..1 -> MainCells]
    /\ input \in SeqsUpTo(MainTagLists, 0, MaxRecs)
    /\ bam = [refs |-> MainRefTable, open |-> TRUE]
    /\ reference \in [DOMAIN input -> {MainRefTable[i][1] : i \in DOMAIN MainRefTable}
                                       \cup {UNMAPPED}]
    /\ \A i, j \in DOMAIN input :
         i < j => Rank(MainRefTable, reference[i]) <= Rank(MainRefTable, reference[j])
    /\ \E arg \in SeqsUpTo(ChromNames, 0, MaxChroms) :
         chromosomes = init_chromosomes(arg, bam)
    /\ barcodes = get_barcodes(barcode_csv)
    /\ pc = "lookup"
    /\ err = ""
    /\ pos = 0
    /\ read_count = 0
    /\ tag_to_file_map = EmptyMap
    /\ files = << >>
    /\ closeIdx = 0
    /\ stdout = << >>
    /\ chromIdx = 1

\* for chrom in self.chromosomes: reflen = self.chr_lengths[chrom]; fetch
MainLookup ==
    /\ pc = "lookup" /\ chromIdx <= Len(chromosomes)
    /\ ~chr_length(get_chr_lengths(bam), chromosomes[chromIdx]).raised
    /\ pc' = "mfetch"
    /\ pos' = 0
    /\ UNCHANGED <<reference, chromosomes, chromIdx, barcode_csv, input, bam,
                   barcodes, err, read_count, tag_to_file_map, files, closeIdx,
                   stdout>>

\* self.chr_lengths[chrom] raises KeyError
MainKeyError ==
    /\ pc = "lookup" /\ chromIdx <= Len(chromosomes)
    /\ chr_length(get_chr_lengths(bam), chromosomes[chromIdx]).raised
    /\ Raise("key", files)
    /\ UNCHANGED <<reference, chromosomes, chromIdx, barcode_csv, input,
                   barcodes, pos, read_count, tag_to_file_map, closeIdx, stdout>>

\* for pileupobj in self.__fetch(chrom, 0, reflen)
MainFetch ==
    /\ pc = "mfetch" /\ pos < Len(Region)
    /\ pos' = pos + 1
    /\ pc' = "mroute"
    /\ UNCHANGED <<reference, chromosomes, chromIdx, barcode_csv, input, bam,
                   barcodes, err, read_count, tag_to_file_map, files, closeIdx,
                   stdout>>

MainDecodeError ==
    /\ pc = "mfetch" /\ pos < Len(Region)
    /\ Raise("decode", files)
    /\ UNCHANGED <<reference, chromosomes, chromIdx, barcode_csv, input,
                   barcodes, pos, read_count, tag_to_file_map, closeIdx, stdout>>

\* the region is exhausted: on to the next entry of the list
MainEndOfRegion ==
    /\ pc = "mfetch" /\ pos = Len(Region)
    /\ chromIdx' = chromIdx + 1
    /\ pc' = "lookup"
    /\ UNCHANGED <<reference, chromosomes, barcode_csv, input, bam, barcodes,
                   err, pos, read_count, tag_to_file_map, files, closeIdx, stdout>>

MainRouteTo(key) ==
    LET r == get_file_for_tag(tag_to_file_map, files, key) IN
    /\ tag_to_file_map' = r.map
    /\ files' = [r.fs EXCEPT ![r.handle] = write(@, Pileupobj)]
    /\ pc' = "mfetch"
    /\ UNCHANGED <<reference, chromosomes, chromIdx, barcode_csv, input, bam,
                   barcodes, err, pos, read_count, closeIdx, stdout>>

MainRouteBarcode ==
    /\ pc = "mroute"
    /\ destination_main(Pileupobj).write
    /\ has_tag(Pileupobj, "CB")
    /\ MainRouteTo(destination_main(Pileupobj).key)

MainRouteUndetermined ==
    /\ pc = "mroute"
    /\ destination_main(Pileupobj).write
    /\ ~has_tag(Pileupobj, "CB")
    /\ MainRouteTo(destination_main(Pileupobj).key)

MainDiscard ==
    /\ pc = "mroute"
    /\ ~destination_main(Pileupobj).write
    /\ pc' = "mfetch"
    /\ UNCHANGED <<reference, chromosomes, chromIdx, barcode_csv, input, bam,
                   barcodes, err, pos, read_count, tag_to_file_map, files,
                   closeIdx, stdout>>

MainOpenError ==
    /\ pc = "mroute"
    /\ destination_main(Pileupobj).write
    /\ destination_main(Pileupobj).key \notin DOMAIN tag_to_file_map
    /\ Raise("open", files)
    /\ UNCHANGED <<reference, chromosomes, chromIdx, barcode_csv, input,
                   barcodes, pos, read_count, tag_to_file_map, closeIdx, stdout>>

MainWriteError ==
    /\ pc = "mroute"
    /\ destination_main(Pileupobj).write
    /\ LET r == get_file_for_tag(tag_to_file_map, files,
                                 destination_main(Pileupobj).key) IN
         /\ tag_to_file_map' = r.map
         /\ Raise("write", r.fs)
    /\ UNCHANGED <<reference, chromosomes, chromIdx, barcode_csv, input,
                   barcodes, pos, read_count, closeIdx, stdout>>

\* the list is exhausted: self.bam.close(); print("closing files: ")
MainEndOfList ==
    /\ pc = "lookup" /\ chromIdx > Len(chromosomes)
    /\ bam' = [bam EXCEPT !.open = FALSE]
    /\ pc' = "mclosing"
    /\ closeIdx' = 1
    /\ UNCHANGED <<reference, chromosomes, chromIdx, barcode_csv, input,
                   barcodes, err, pos, read_count, tag_to_file_map, files, stdout>>

MainCloseFile ==
    /\ pc = "mclosing" /\ closeIdx <= Len(files)
    /\ files' = [files EXCEPT ![closeIdx].state = "closed",
                              ![closeIdx].closes = @ + 1]
    /\ closeIdx' = closeIdx + 1
    /\ UNCHANGED <<reference, chromosomes, chromIdx, barcode_csv, input, bam,
                   barcodes, pc, err, pos, read_count, tag_to_file_map, stdout>>

\* as in split_bam, the handler warnings('error closing file ' + file) raises
MainCloseError ==
    /\ pc = "mclosing" /\ closeIdx <= Len(files)
    /\ Raise("close", [files EXCEPT ![closeIdx].state = "error",
                                    ![closeIdx].closes = @ + 1])
    /\ UNCHANGED <<reference, chromosomes, chromIdx, barcode_csv, input,
                   barcodes, pos, read_count, tag_to_file_map, closeIdx, stdout>>

\* main returns; nothing is printed
MainReturn ==
    /\ pc = "mclosing" /\ closeIdx > Len(files)
    /\ pc' = "done"
    /\ bam' = exit(FALSE, bam, files).bam
    /\ files' = exit(FALSE, bam, files).fs
    /\ UNCHANGED <<reference, chromosomes, chromIdx, barcode_csv, input,
                   barcodes, err, pos, read_count, tag_to_file_map, closeIdx,
                   stdout>>

NextMain ==
    \/ MainLookup
    \/ MainKeyError
    \/ MainFetch
    \/ MainDecodeError
    \/ MainEndOfRegion
    \/ MainRouteBarcode
    \/ MainRouteUndetermined
    \/ MainDiscard
    \/ MainOpenError
    \/ MainWriteError
    \/ MainEndOfList
    \/ MainCloseFile
    \/ MainCloseError
    \/ MainReturn

SpecMain == InitMain /\ [][NextMain]_vars

\* the loop of split_bam over the records 1..n, every read and write succeeding
RECURSIVE split_bam_loop(_)
split_bam_loop(n) ==
    IF n = 0 THEN [map |-> EmptyMap, fs |-> << >>]
    ELSE LET prev == split_bam_loop(n - 1)
             d == destination(Read(n))
         IN IF d.write
            THEN LET r == get_file_for_tag(prev.map, prev.fs, d.key)
                 IN [map |-> r.map,
                     fs  |-> [r.fs EXCEPT ![r.handle] = write(@, Read(n))]]
            ELSE prev

TypeOK ==
    /\ pc \in {"fetch", "route", "closing", "done", "aborted",
              "lookup", "mfetch", "mroute", "mclosing"}
    /\ err \in {"", "decode", "open", "write", "close", "key"}
    /\ DOMAIN reference = DOMAIN input
    /\ chromIdx \in 0..Len(chromosomes) + 1
    /\ pos \in 0..Len(input)
    /\ read_count \in 0..Len(input)
    /\ \A h \in DOMAIN files : files[h].state \in {"open", "closed", "error"}

\* ===================================================================
\* Properties. The routing policy is restated here from the
\* specification, independently of the definitions above.
\* ===================================================================
Offsets == 1..Len(input)
HasCB(i) == \E j \in DOMAIN input[i] : input[i][j][1] = "CB"
CBOf(i) == input[i][CHOOSE j \in DOMAIN input[i] : input[i][j][1] = "CB"][2]
Accepted(i) == HasCB(i) /\ CBOf(i) \in barcodes
Rejected(i) == HasCB(i) /\ CBOf(i) \notin barcodes
PolicyKey(i) == IF HasCB(i) THEN CBOf(i) ELSE UNDETERMINED

\* the places (file, index) where the record at offset i has been written
Copies(i) == UNION {{<<h, j>> : j \in {n \in DOMAIN files[h].recs :
                                            files[h].recs[n].offset = i}} :
                    h \in DOMAIN files}
KeysOf(i) == {files[c[1]].key : c \in Copies(i)}
FileKeys == {files[h].key : h \in DOMAIN files}
TotalWritten == Cardinality(UNION {Copies(i) : i \in Offsets})

\* the iteration of record i has run to its end
Completed(i) == i < pos \/ (i = pos /\ pc # "route" /\ err \notin {"open", "write"})
LoopFinished == pc \in {"closing", "done"} \/ (pc = "aborted" /\ err = "close")

RECURSIVE Expected(_, _)
\* the records among offsets 1..n that the policy sends to key k, in order
Expected(k, n) ==
    IF n = 0 THEN << >>
    ELSE IF ~Rejected(n) /\ PolicyKey(n) = k
         THEN Append(Expected(k, n - 1), Read(n))
         ELSE Expected(k, n - 1)

\* C1: every record whose iteration has completed is either (1) tagged with
\* an accepted barcode and written exactly once, to the file keyed by that
\* value, (2) tagged with a value outside the barcode set and written
\* nowhere, no error being raised for it, or (3) untagged and written exactly
\* once, to the file keyed "undetermined"; nothing else is written.
C1_RoutingOutcomes ==
    /\ \A i \in Offsets :
         IF Completed(i)
         THEN IF Accepted(i)
              THEN Cardinality(Copies(i)) = 1 /\ KeysOf(i) = {CBOf(i)}
              ELSE IF Rejected(i)
                   THEN Copies(i) = {}
                   ELSE Cardinality(Copies(i)) = 1 /\ KeysOf(i) = {UNDETERMINED}
         ELSE Copies(i) = {}
    /\ (pc = "aborted" /\ err \in {"open", "write"}) => ~Rejected(pos)

C1_Witness ==
    /\ pc = "done"
    /\ \E i, j, k \in Offsets : Accepted(i) /\ Rejected(j) /\ ~HasCB(k)
    /\ Len(files) = 2

\* C2: the registry holds one file per routing key: no two files share a
\* key, every registered key is bound to the file created for it, and the
\* number of files ever created equals the number of distinct keys resolved
\* so far.
C2_OneStreamPerKey ==
    LET resolved == {PolicyKey(i) : i \in {n \in Offsets : Completed(n) /\ ~Rejected(n)}}
                    \cup (IF pc = "aborted" /\ err = "write" THEN {PolicyKey(pos)} ELSE {})
    IN /\ Len(files) = Cardinality(resolved)
       /\ Cardinality(FileKeys) = Len(files)
       /\ DOMAIN tag_to_file_map = resolved
       /\ \A k \in DOMAIN tag_to_file_map :
            /\ tag_to_file_map[k] \in DOMAIN files
            /\ files[tag_to_file_map[k]].key = k

C2_Witness ==
    /\ Len(files) = 2
    /\ \E h \in DOMAIN files : Len(files[h].recs) = 2
    /\ pc = "fetch"

\* C3: when the pass aborts on a decode error or a write error, every output
\* file opened so far has been closed.
C3_FinalizeOnAbort ==
    (pc = "aborted" /\ err \in {"decode", "write"}) =>
        \A h \in DOMAIN files : files[h].state = "closed"

\* C4: when closing one file fails, a close has still been attempted on
\* every registered file once the pass ends, and the read count is reported.
C4_BestEffortDrain ==
    (pc \in {"done", "aborted"} /\ \E h \in DOMAIN files : files[h].state = "error") =>
        /\ \A h \in DOMAIN files : files[h].state # "open"
        /\ stdout = <<Len(input)>>

\* C5: at most one record is in flight: all records before the one in hand
\* are settled and none beyond it is written; each output file holds input
\* records at strictly increasing input offsets.
C5_OrderPreserved ==
    /\ \A i \in Offsets :
         /\ (i < pos /\ ~Rejected(i)) => Copies(i) # {}
         /\ i > pos => Copies(i) = {}
    /\ \A h \in DOMAIN files :
         /\ \A j \in DOMAIN files[h].recs :
              /\ files[h].recs[j].offset \in Offsets
              /\ files[h].recs[j] = Read(files[h].recs[j].offset)
         /\ \A j1, j2 \in DOMAIN files[h].recs :
              j1 < j2 => files[h].recs[j1].offset < files[h].recs[j2].offset

C5_Witness ==
    \E h1, h2 \in DOMAIN files :
        /\ Len(files[h1].recs) = 2 /\ Len(files[h2].recs) = 1
        /\ files[h1].recs[1].offset < files[h2].recs[1].offset
        /\ files[h2].recs[1].offset < files[h1].recs[2].offset

\* C6: after an abort on a decode error while reading record pos + 1, the
\* output files are exactly those the policy opens for records 1..pos, and
\* each holds exactly the records of 1..pos the policy sends to it.
C6_PartialOutputRetained ==
    (pc = "aborted" /\ err = "decode") =>
        /\ FileKeys = {k \in CBValues : Expected(k, pos) # << >>}
        /\ \A h \in DOMAIN files : files[h].recs = Expected(files[h].key, pos)

C6_Witness ==
    /\ pc = "aborted" /\ err = "decode"
    /\ pos = 2 /\ Len(input) = 3
    /\ Len(files) = 2

\* C7: once the read loop has ended, the output files are exactly one per
\* accepted barcode that some record carries, plus "undetermined" when some
\* record is untagged, and each of them holds at least one record.
C7_ExactStreamSet ==
    LoopFinished =>
        /\ FileKeys = {CBOf(i) : i \in {n \in Offsets : Accepted(n)}}
                      \cup (IF \E i \in Offsets : ~HasCB(i) THEN {UNDETERMINED} ELSE {})
        /\ DOMAIN tag_to_file_map = FileKeys
        /\ Cardinality(FileKeys) = Len(files)
        /\ \A h \in DOMAIN files : files[h].recs # << >>

C7_Witness ==
    /\ pc = "done"
    /\ \E i \in Offsets : Rejected(i)
    /\ \E b \in barcodes \cap CBValues : \A i \in Offsets : HasCB(i) => CBOf(i) # b
    /\ Len(files) = 1
    /\ FileKeys = {UNDETERMINED}

\* C8: after a full pass whose files all closed, the one count printed is
\* the number of input records, which is the number of records written plus
\* the number discarded.
C8_CountReported ==
    pc = "done" =>
        /\ stdout = <<Len(input)>>
        /\ Len(input) = TotalWritten + Cardinality({i \in Offsets : Rejected(i)})

C8_Witness ==
    /\ pc = "done"
    /\ Len(input) = 3
    /\ \E i, j, k \in Offsets : Accepted(i) /\ Rejected(j) /\ ~HasCB(k)

\* C9: with no barcode string accepted, no tagged record is written, no file
\* other than "undetermined" is created, and at the end of the read loop
\* "undetermined" exists exactly when some record is untagged.
C9_EmptyBarcodeSet ==
    (barcodes \cap CBValues = {}) =>
        /\ FileKeys \subseteq {UNDETERMINED}
        /\ \A i \in Offsets : HasCB(i) => Copies(i) = {}
        /\ LoopFinished => (files # << >> <=> \E i \in Offsets : ~HasCB(i))

C9_Witness ==
    /\ barcodes \cap CBValues = {}
    /\ pc = "done"
    /\ \E i \in Offsets : HasCB(i) /\ CBOf(i) = UNDETERMINED
    /\ \E i \in Offsets : ~HasCB(i)
    /\ Len(files) = 1

\* C10: every output file carries, from its creation on, the reference
\* table of the input: same names, same lengths, same order.
C10_HeaderFidelity ==
    \A h \in DOMAIN files : files[h].header = bam.refs

C10_Witness ==
    /\ Len(files) = 3
    /\ bam.refs[1][1] = "chrM"
    /\ pc = "done"

\* C11: the registry binds every key to the file created for it, no file is
\* closed (and so none written after its close) before the last input
\* record has been routed, and once a full pass has ended close() has been
\* called exactly once on every registered file.
C11_RegistryLifecycle ==
    /\ \A k \in DOMAIN tag_to_file_map : files[tag_to_file_map[k]].key = k
    /\ \A h \in DOMAIN files :
         files[h].closes > 0 => (LoopFinished /\ pos = Len(input))
    /\ (pc = "done" \/ (pc = "aborted" /\ err = "close")) =>
         \A h \in DOMAIN files : files[h].closes = 1

\* C15: the file keyed "undetermined" holds only untagged records and a
\* file keyed by a barcode of the set holds only records whose CB value is
\* that key.
C15_KeySeparation ==
    \A h \in DOMAIN files : \A j \in DOMAIN files[h].recs :
        LET i == files[h].recs[j].offset IN
        /\ files[h].key = UNDETERMINED => ~HasCB(i)
        /\ files[h].key \in barcodes => (HasCB(i) /\ CBOf(i) = files[h].key)

\* -------------------------------------------------------------------
\* Properties of the region-bounded pass (SpecMain)
\* -------------------------------------------------------------------
TableNames == {bam.refs[i][1] : i \in DOMAIN bam.refs}
ListNames == {chromosomes[e] : e \in DOMAIN chromosomes}
OnRef(c) == {i \in Offsets : reference[i] = c}
Occurrences(c) == Cardinality({e \in DOMAIN chromosomes : chromosomes[e] = c})
FirstN(S, n) == {i \in S : Cardinality({j \in S : j < i}) < n}

\* main is inside the loop of a list entry, and the number of records of
\* that entry whose iteration has run to its end
InEntry == pc \in {"mfetch", "mroute"}
           \/ (pc = "aborted" /\ err \in {"decode", "open", "write"})
DoneInEntry == IF pc = "mroute" \/ (pc = "aborted" /\ err \in {"open", "write"})
               THEN pos - 1 ELSE pos
MainLoopFinished == pc \in {"mclosing", "done"} \/ (pc = "aborted" /\ err = "close")

RECURSIVE SelOn(_, _, _)
\* the records at offsets 1..m within S that the policy sends to key k
SelOn(k, S, m) ==
    IF m = 0 THEN << >>
    ELSE IF m \in S /\ ~Rejected(m) /\ PolicyKey(m) = k
         THEN Append(SelOn(k, S, m - 1), Read(m))
         ELSE SelOn(k, S, m - 1)

RECURSIVE ThroughEntry(_, _)
\* what key k receives from the list entries 1..e, entry after entry
ThroughEntry(k, e) ==
    IF e = 0 THEN << >>
    ELSE ThroughEntry(k, e - 1) \o SelOn(k, OnRef(chromosomes[e]), Len(input))

ExpectedMain(k) ==
    ThroughEntry(k, chromIdx - 1)
    \o (IF InEntry
        THEN SelOn(k, FirstN(OnRef(chromosomes[chromIdx]), DoneInEntry), Len(input))
        ELSE << >>)

\* C12: at every point of main each output file holds, in this order, the
\* routed records of the list entries already finished, entry after entry,
\* followed by those of the entry in hand read so far; nothing of a later
\* entry, of a reference outside the list or without a reference is written.
C12_ListOrder ==
    /\ \A h \in DOMAIN files : files[h].recs = ExpectedMain(files[h].key)
    /\ \A k \in CBValues : ExpectedMain(k) # << >> => k \in FileKeys
    /\ \A i \in Offsets :
         (reference[i] = UNMAPPED \/ reference[i] \notin ListNames) => Copies(i) = {}

C12_Witness ==
    /\ pc = "done"
    /\ chromosomes = <<"chrM", "1">>
    /\ \E h \in DOMAIN files :
         /\ Len(files[h].recs) = 2
         /\ files[h].recs[1].offset > files[h].recs[2].offset
    /\ \E i \in Offsets : reference[i] = UNMAPPED /\ ~Rejected(i)

\* the records of the input are all on a reference named exactly once
EveryRecordListedOnce ==
    \A i \in Offsets : reference[i] # UNMAPPED /\ Occurrences(reference[i]) = 1

CountIn(recs, i) == Cardinality({j \in DOMAIN recs : recs[j] = Read(i)})

\* main has produced the files of the linear pass, each with the same
\* multiset of records
SameAsLinear ==
    LET lin == split_bam_loop(Len(input)).fs IN
    /\ FileKeys = {lin[g].key : g \in DOMAIN lin}
    /\ Len(files) = Len(lin)
    /\ \A h \in DOMAIN files : \A g \in DOMAIN lin :
         files[h].key = lin[g].key =>
            /\ Len(files[h].recs) = Len(lin[g].recs)
            /\ \A i \in Offsets : CountIn(files[h].recs, i) = CountIn(lin[g].recs, i)

\* main has ended without a failure of reading, opening or writing
MainEnded == MainLoopFinished \/ (pc = "aborted" /\ err = "key")

\* C13 (as claimed): when every record is on a reference named exactly once
\* in the list, main ends with the files and records of the linear pass.
C13_ModesAgree_AsClaimed ==
    (MainEnded /\ EveryRecordListedOnce) => SameAsLinear

\* C13 (amended): when every record is on a reference named exactly once in
\* the list and every name of the list is in the reference table of the
\* input, main ends with the files and records of the linear pass.
C13_ModesAgree ==
    (MainEnded /\ EveryRecordListedOnce /\ ListNames \subseteq TableNames)
        => SameAsLinear

C13_Witness ==
    /\ pc = "done"
    /\ EveryRecordListedOnce
    /\ chromosomes = <<"chrM", "1">>
    /\ Len(files) = 2
    /\ \E i, j, k \in Offsets : Accepted(i) /\ Rejected(j) /\ ~HasCB(k)
    /\ \E i, j \in Offsets : reference[i] # reference[j]

\* C14 (as claimed): whatever the list, no record is written twice.
C14_WrittenAtMostOnce_AsClaimed ==
    \A i \in Offsets : Cardinality(Copies(i)) <= 1

\* C14 (amended): when the list names no reference twice, no record is
\* written twice.
C14_WrittenAtMostOnce ==
    (\A c \in ListNames : Occurrences(c) = 1) =>
        \A i \in Offsets : Cardinality(Copies(i)) <= 1

C14_Witness ==
    /\ pc = "done"
    /\ Len(chromosomes) = 2 /\ chromosomes[1] # chromosomes[2]
    /\ Len(input) = 3
    /\ \A i \in Offsets : Cardinality(Copies(i)) = 1
    /\ \E i, j \in Offsets : reference[i] # reference[j]

\* C16: main never goes past a list entry whose name is not in the reference
\* table: it stops at the lookup of that name with a KeyError, the files
\* then holding exactly what the earlier entries wrote.
C16_UnknownNameFatal ==
    /\ \A e \in DOMAIN chromosomes :
         chromosomes[e] \notin TableNames =>
            \/ chromIdx < e
            \/ chromIdx = e /\ pc = "lookup"
            \/ chromIdx = e /\ pc = "aborted" /\ err = "key"
    /\ (pc = "aborted" /\ err = "key") =>
         /\ chromosomes[chromIdx] \notin TableNames
         /\ \A h \in DOMAIN files :
              /\ files[h].recs = ThroughEntry(files[h].key, chromIdx - 1)
              /\ files[h].recs # << >>
         /\ \A k \in CBValues : ThroughEntry(k, chromIdx - 1) # << >> => k \in FileKeys

C16_Witness ==
    /\ pc = "aborted" /\ err = "key"
    /\ chromosomes = <<"chrM", "X">>
    /\ Len(files) = 2
    /\ \E i \in Offsets : reference[i] = "1"

====
